---- MODULE Spec2Model ----
(***************************************************************************)
(* LiteageOS installer (src/main.py): the session state machine of main(), *)
(* the install and uninstall orchestrators, the asset cache, the           *)
(* capability probes and the version predictor.                            *)
(*                                                                         *)
(* External tools and the network are the environment: every command       *)
(* output, transfer outcome and console answer is drawn from a small set.  *)
(* Whether a tool binary is on the execution path is fixed for a session   *)
(* (adbPresent, aaptPresent are chosen in Init and never change).          *)
(* Python strings are TLA+ strings; None is the empty tuple << >>, a       *)
(* non-None value v is the one-element tuple <<v>> where the two must be   *)
(* told apart.  A run_command(check_output=True) result is a record        *)
(* [ok, out]: ok = FALSE is the returned False, otherwise out is the       *)
(* stripped stdout.                                                        *)
(***************************************************************************)
EXTENDS Integers, Sequences, FiniteSets, TLC

\* ------------------------------------------------------------------------
\* Bounds of the model
\* ------------------------------------------------------------------------

\* Install/uninstall runs started from the menu in one session.
MaxRuns == 2

\* Environment faults (failed transfer, failed or unusable tool output)
\* injected in one session.
MaxFaults == 1

\* ------------------------------------------------------------------------
\* Python string primitives, computed on the characters
\* ------------------------------------------------------------------------

None == << >>

Some(v) == <<v>>

\* Python: needle in hay
Contains(hay, needle) ==
    \E i \in 1..(Len(hay) - Len(needle) + 1) :
        SubSeq(hay, i, i + Len(needle) - 1) = needle

\* Index of the first occurrence of sep in s, 0 when there is none.
Find(s, sep) ==
    IF Contains(s, sep)
    THEN CHOOSE i \in 1..(Len(s) - Len(sep) + 1) :
            /\ SubSeq(s, i, i + Len(sep) - 1) = sep
            /\ \A j \in 1..(i - 1) : SubSeq(s, j, j + Len(sep) - 1) # sep
    ELSE 0

\* Python: s.split(sep), the list of the pieces between occurrences of sep.
RECURSIVE Split(_, _)
Split(s, sep) ==
    LET i == Find(s, sep)
    IN  IF i = 0 THEN <<s>>
        ELSE <<SubSeq(s, 1, i - 1)>> \o Split(SubSeq(s, i + Len(sep), Len(s)), sep)

\* Python: s.splitlines() for "\n"-separated text (no piece for an empty text
\* or after a final line break).
SplitLines(s) ==
    LET parts == Split(s, "\n")
    IN  IF s = "" THEN << >>
        ELSE IF parts[Len(parts)] = "" THEN SubSeq(parts, 1, Len(parts) - 1)
        ELSE parts

IsSpace(c) == c \in {" ", "\t", "\n"}

\* Python: s.strip()
RECURSIVE Strip(_)
Strip(s) ==
    IF s = "" THEN s
    ELSE IF IsSpace(SubSeq(s, 1, 1)) THEN Strip(SubSeq(s, 2, Len(s)))
    ELSE IF IsSpace(SubSeq(s, Len(s), Len(s))) THEN Strip(SubSeq(s, 1, Len(s) - 1))
    ELSE s

\* Python: s.split(), the whitespace-separated tokens of s.
RECURSIVE Tokens(_)
Tokens(s) ==
    LET t == Strip(s)
        ws == {i \in 1..Len(t) : IsSpace(SubSeq(t, i, i))}
    IN  IF t = "" THEN << >>
        ELSE IF ws = {} THEN <<t>>
        ELSE LET i == CHOOSE k \in ws : \A m \in ws : k <= m
             IN  <<SubSeq(t, 1, i - 1)>> \o Tokens(SubSeq(t, i + 1, Len(t)))

Digits == <<"0", "1", "2", "3", "4", "5", "6", "7", "8", "9">>

IsDigitChar(c) == \E d \in 1..10 : Digits[d] = c

DigitVal(c) == (CHOOSE d \in 1..10 : Digits[d] = c) - 1

\* Python: s.isdigit()
IsDigit(s) == s # "" /\ \A i \in 1..Len(s) : IsDigitChar(SubSeq(s, i, i))

RECURSIVE DigitsValue(_)
DigitsValue(s) ==
    IF s = "" THEN 0
    ELSE 10 * DigitsValue(SubSeq(s, 1, Len(s) - 1)) + DigitVal(SubSeq(s, Len(s), Len(s)))

\* Python: int(s) succeeds (surrounding whitespace and one sign are accepted).
IntParses(s) ==
    LET t == Strip(s)
        body == IF t # "" /\ SubSeq(t, 1, 1) \in {"-", "+"} THEN SubSeq(t, 2, Len(t)) ELSE t
    IN  IsDigit(body)

\* Python: int(s), where IntParses(s)
IntOf(s) ==
    LET t == Strip(s)
    IN  IF SubSeq(t, 1, 1) = "-" THEN 0 - DigitsValue(SubSeq(t, 2, Len(t)))
        ELSE IF SubSeq(t, 1, 1) = "+" THEN DigitsValue(SubSeq(t, 2, Len(t)))
        ELSE DigitsValue(t)

Uppers == <<"A", "B", "C", "D", "E", "F", "G", "H", "I", "J", "K", "L", "M",
            "N", "O", "P", "Q", "R", "S", "T", "U", "V", "W", "X", "Y", "Z">>

Lowers == <<"a", "b", "c", "d", "e", "f", "g", "h", "i", "j", "k", "l", "m",
            "n", "o", "p", "q", "r", "s", "t", "u", "v", "w", "x", "y", "z">>

LowerChar(c) ==
    IF \E k \in 1..Len(Uppers) : Uppers[k] = c
    THEN Lowers[CHOOSE k \in 1..Len(Uppers) : Uppers[k] = c]
    ELSE c

\* Python: s.lower(), on the letters the modelled texts use.
RECURSIVE Lower(_)
Lower(s) ==
    IF s = "" THEN s
    ELSE LowerChar(SubSeq(s, 1, 1)) \o Lower(SubSeq(s, 2, Len(s)))

\* run_command(check_output=True) results: the returned False, or stdout.strip()
Failed == [ok |-> FALSE, out |-> ""]

Stdout(text) == [ok |-> TRUE, out |-> Strip(text)]

\* Python truthiness of such a result: False and "" are falsy.
Truthy(r) == r.ok /\ r.out # ""

\* ------------------------------------------------------------------------
\* Project configuration (src/main.py, lines 83-125)
\* ------------------------------------------------------------------------

\* The dictionary in its insertion order: <<APK filename, Optional>>.
LINEAGEOS_COMPONENTS ==
    << <<"Music.apk", FALSE>>, <<"Phone.apk", FALSE>>, <<"Files.apk", FALSE>>,
       <<"Browser.apk", FALSE>>, <<"Calc.apk", FALSE>>, <<"Recorder.apk", FALSE>>,
       <<"Calender.apk", FALSE>>, <<"Gallery.apk", FALSE>>, <<"Aurora.apk", TRUE>> >>

LAUNCHERS == {"Litechair.apk", "Litechair_legacy.apk"}

WALLPAPER_FILENAME == "wallpaper.jpg"

NumComponents == Len(LINEAGEOS_COMPONENTS)

ComponentNames == {LINEAGEOS_COMPONENTS[i][1] : i \in 1..NumComponents}

\* Every asset name the program can ask download_file for.
Assets == ComponentNames \cup LAUNCHERS \cup {WALLPAPER_FILENAME}

\* ------------------------------------------------------------------------
\* State
\* ------------------------------------------------------------------------

VARIABLES
    pc,                 \* position of main()
    exitCode,           \* None while running, Some(code) once the process ended
    adbPresent,         \* environment: the adb binary is on the execution path
    aaptPresent,        \* environment: the aapt binary is on the execution path
    aapt_available,     \* the module-level capability flag (line 128)
    output,             \* check_adb_connection: the listing of the last probe
    depth,              \* check_adb_connection: calls of itself below the first one
    profile,            \* main: locals of the prediction block (lines 602-613) and
                        \* the command answers they were computed from
    config,             \* main: install pre-configuration (lines 629-646)
    cache,              \* TEMP_DIR: asset name -> "absent" | "partial" | "complete"
    idx,                \* position of the running for loop
    confirm,            \* wipe_liteageos_components: the lowered confirmation answer
    packages_to_uninstall, \* wipe_liteageos_components: the list being built
    targets,            \* wipe_liteageos_components: set(packages_to_uninstall) as iterated
    log,                \* history: commands issued and messages logged by the last step
    attempted,          \* history: asset names download_file was called for in this run
    identified,         \* history: identities get_package_name_from_apk returned in this run
    uninstalled,        \* history: identities `pm uninstall` was issued for in this run
    runs,               \* runs started in this session
    faults              \* environment faults injected in this session

vars == <<pc, exitCode, adbPresent, aaptPresent, aapt_available, output, depth, profile,
          config, cache, idx, confirm, packages_to_uninstall, targets,
          log, attempted, identified, uninstalled, runs, faults>>

\* The variables of the two orchestrators' runs.
runVars == <<config, idx, confirm, packages_to_uninstall, targets,
            attempted, identified, uninstalled>>

\* The asset cache and the fault budget.
envVars == <<cache, faults>>

\* The session's fixed and startup state.
sessionVars == <<adbPresent, aaptPresent, aapt_available, output, depth>>

NoProfile == [release_version_str |-> None, sdk_version_str |-> None,
              meminfo_output |-> None,
              android_os_version |-> None, has_arm8_support |-> FALSE,
              total_ram_gb |-> None, is_memory_less_than_100gb |-> FALSE,
              predicted_liteage_version |-> None]

NoConfig == [install_launcher_action |-> FALSE, chosen_launcher_apk |-> None,
             install_optional_apps_config |-> None]

Init ==
    /\ pc = "check_adb"
    /\ exitCode = None
    /\ adbPresent \in BOOLEAN
    /\ aaptPresent \in BOOLEAN
    /\ aapt_available = FALSE
    /\ output = None
    /\ depth = 0
    /\ profile = NoProfile
    /\ config = NoConfig
    /\ cache = [a \in Assets |-> "absent"]
    /\ idx = 0
    /\ confirm = None
    /\ packages_to_uninstall = << >>
    /\ targets = << >>
    /\ log = << >>
    /\ attempted = {}
    /\ identified = {}
    /\ uninstalled = << >>
    /\ runs = 0
    /\ faults = 0

\* ------------------------------------------------------------------------
\* History entries: <<kind, subject, succeeded>>
\* ------------------------------------------------------------------------

Cmd(kind, subject, ok) == << <<kind, subject, ok>> >>

Msg(kind, subject) == << <<kind, subject, TRUE>> >>

\* The entries of the given kinds in a history.
Entries(l, kinds) == {l[i] : i \in {k \in DOMAIN l : l[k][1] \in kinds}}

\* The subjects of the entries of the given kinds.
Subjects(l, kinds) == {e[2] : e \in Entries(l, kinds)}

\* The asset names a history shows download_file was called for.
Resolved(l) == Subjects(l, {"cached", "transfer"})

\* The identities a history shows get_package_name_from_apk returned (line 234).
Identified(l) == Subjects(l, {"package_name"})

\* ------------------------------------------------------------------------
\* run_command (lines 140-183)
\* ------------------------------------------------------------------------

ToolFound(tool_name) == IF tool_name = "AAPT" THEN aaptPresent ELSE adbPresent

\* except FileNotFoundError: the sys.exit(1) of line 183 is at the level of the
\* except block, after the if/else on tool_name, so it runs for either tool.
RunCommandExits(tool_name) == ~ToolFound(tool_name)

\* An exit that reports success whatever the code.
ExitProcessReportingSuccess(code) ==
    /\ pc' = "exited"
    /\ exitCode' = Some(0)

\* sys.exit(1)
ExitProcess(code) ==
    /\ pc' = "exited"
    /\ exitCode' = Some(code)

\* An environment fault may be injected while the session's budget lasts.
MayFault == faults < MaxFaults

\* ------------------------------------------------------------------------
\* check_adb_connection (lines 185-199)
\* ------------------------------------------------------------------------

\* What `adb devices` can answer: a failed command, or its stdout.
DevicesOutputs ==
    { Failed,
      Stdout(""),
      Stdout("List of devices attached\n\n"),
      Stdout("List of devices attached\nR58M\tdevice\n\n"),
      Stdout("List of devices attached\nR58M\tunauthorized\n\n"),
      Stdout("List of devices attached\nR58M\toffline\n\n") }

\* line 189
AdbNotReady(r) ==
    \/ ~Truthy(r)
    \/ ~Contains(r.out, "device")
    \/ Contains(r.out, "unauthorized")

\* The depth of the call stack the interpreter allows: sys.getrecursionlimit()
\* is 1000 unless sys.setrecursionlimit is called, which the source never does.
RecursionLimit == 1000

\* line 197: the retry is a call of check_adb_connection by itself, one more
\* frame for every probe that was not ready. The frames of main and of the
\* callees are not counted, so the interpreter refuses the call no later than
\* the model does.
CanRecurse(d) == d + 1 < RecursionLimit

\* One probe. A probe that is not ready prompts for Enter and probes again
\* (the recursive call of line 197); a ready one returns True to main through
\* every frame. A call the interpreter refuses raises RecursionError, which
\* run_command does not catch and the handler of main (lines 661-666) does.
CheckAdbConnection ==
    /\ pc = "check_adb"
    /\ IF RunCommandExits("ADB")
       THEN /\ ExitProcess(1)
            /\ log' = Msg("not_found", "ADB")
            /\ UNCHANGED <<output, depth>>
       ELSE \E r \in DevicesOutputs :
               /\ output' = Some(r)
               /\ IF ~AdbNotReady(r)
                  THEN /\ pc' = "check_aapt"
                       /\ depth' = 0
                       /\ UNCHANGED <<exitCode, log>>
                  ELSE IF CanRecurse(depth)
                  THEN /\ pc' = "check_adb"
                       /\ depth' = depth + 1
                       /\ UNCHANGED <<exitCode, log>>
                  ELSE /\ ExitProcess(1)
                       /\ depth' = 0
                       /\ log' = Msg("critical_error", "check_adb_connection")
    /\ UNCHANGED <<adbPresent, aaptPresent, aapt_available, profile, runs>>
    /\ UNCHANGED <<runVars, envVars>>

\* ------------------------------------------------------------------------
\* check_aapt_availability (lines 201-215)
\* ------------------------------------------------------------------------

AaptVersionOutputs ==
    { Failed,
      Stdout(""),
      Stdout("Android Asset Packaging Tool, v0.2-9420752\n") }

CheckAaptAvailability ==
    /\ pc = "check_aapt"
    /\ IF RunCommandExits("AAPT")
       THEN /\ ExitProcess(1)
            /\ log' = Msg("not_found", "AAPT")
            /\ UNCHANGED aapt_available
       ELSE \E r \in AaptVersionOutputs :
               /\ aapt_available' = Truthy(r)
               /\ pc' = "menu"
               /\ UNCHANGED <<exitCode, log>>
    /\ output' = None
    /\ UNCHANGED <<adbPresent, aaptPresent, depth, profile, runs>>
    /\ UNCHANGED <<runVars, envVars>>

\* ------------------------------------------------------------------------
\* Device profile (lines 352-418)
\* ------------------------------------------------------------------------

\* get_android_os_version, lines 372-382: the API level -> Android version table
ApiLevelToVersion(api_level) ==
    IF api_level >= 34 THEN 14
    ELSE IF api_level = 33 THEN 13
    ELSE IF api_level = 32 THEN 12
    ELSE IF api_level = 31 THEN 12
    ELSE IF api_level = 30 THEN 11
    ELSE IF api_level = 29 THEN 10
    ELSE IF api_level = 28 THEN 9
    ELSE IF api_level = 27 THEN 8
    ELSE IF api_level = 26 THEN 8
    ELSE api_level

\* lines 357-364: the release property decides when it is truthy and int() takes it
ReleaseDecides(release_version_str) ==
    Truthy(release_version_str) /\ IntParses(release_version_str.out)

\* get_android_os_version; sdk_version_str is read only when the release
\* property does not decide.
GetAndroidOsVersion(release_version_str, sdk_version_str) ==
    IF ReleaseDecides(release_version_str)
    THEN Some(IntOf(release_version_str.out))
    ELSE IF Truthy(sdk_version_str) /\ IsDigit(Strip(sdk_version_str.out))
    THEN Some(ApiLevelToVersion(IntOf(Strip(sdk_version_str.out))))
    ELSE None

\* check_arm8_support_on_device
CheckArm8SupportOnDevice(abi_output, abi2_output) ==
    \/ Truthy(abi_output) /\ Contains(Lower(abi_output.out), "arm64-v8a")
    \/ Truthy(abi2_output) /\ Contains(Lower(abi2_output.out), "arm64-v8a")

KbPerGb == 1048576

\* round(mem_kb / (1024 * 1024), 2), in hundredths of a GB. The quotient is exact
\* in binary floating point, so the rounding is to the nearest hundredth, a tie
\* going to the even one.
RoundGb(mem_kb) ==
    LET whole == mem_kb \div KbPerGb
        scaled == (mem_kb % KbPerGb) * 100
        lo == scaled \div KbPerGb
        rem == scaled % KbPerGb
        up == \/ 2 * rem > KbPerGb
              \/ 2 * rem = KbPerGb /\ lo % 2 = 1
    IN  whole * 100 + lo + (IF up THEN 1 ELSE 0)

\* A reading that takes a MemTotal line it cannot parse for zero.
GetDeviceRamGbZeroIfUnparsed(meminfo_output) ==
    IF ~Truthy(meminfo_output) THEN None
    ELSE LET lines == SplitLines(meminfo_output.out)
             hits == {k \in 1..Len(lines) : Contains(lines[k], "MemTotal:")}
         IN  IF hits = {} THEN None
             ELSE LET line == lines[CHOOSE k \in hits : \A m \in hits : k <= m]
                      toks == Tokens(line)
                  IN  IF Len(toks) < 2 THEN Some(0)
                      ELSE IF ~IntParses(toks[2]) THEN Some(0)
                      ELSE Some(RoundGb(IntOf(toks[2])))

\* get_device_ram_gb: None, or Some(hundredths of a GB). The first line holding
\* "MemTotal:" decides: its second token parsed by int(), or None when there is
\* no second token (IndexError) or it is no integer (ValueError).
GetDeviceRamGb(meminfo_output) ==
    IF ~Truthy(meminfo_output) THEN None
    ELSE LET lines == SplitLines(meminfo_output.out)
             hits == {k \in 1..Len(lines) : Contains(lines[k], "MemTotal:")}
         IN  IF hits = {} THEN None
             ELSE LET line == lines[CHOOSE k \in hits : \A m \in hits : k <= m]
                      toks == Tokens(line)
                  IN  IF Len(toks) < 2 THEN None
                      ELSE IF ~IntParses(toks[2]) THEN None
                      ELSE Some(RoundGb(IntOf(toks[2])))

\* ------------------------------------------------------------------------
\* calculate_liteageos_version (lines 420-440)
\* ------------------------------------------------------------------------

CalculateLiteageosVersion(android_version_num, has_arm8, is_memory_less_than_100gb) ==
    LET base == IF android_version_num # None
                THEN ToString(android_version_num[1] + 10)
                ELSE "???"
        arm == IF has_arm8 THEN "+" ELSE ""
        mem == IF is_memory_less_than_100gb THEN "S" ELSE ""
    IN  base \o arm \o mem

\* A comparison that takes an unresolved amount for a small one.
IsMemoryLessThan100GbOrUnresolved(total_ram_gb) ==
    IF total_ram_gb # None THEN total_ram_gb[1] < 100 * 100 ELSE TRUE

\* main, lines 605-607: total_ram_gb < 100, False when total_ram_gb is None
IsMemoryLessThan100Gb(total_ram_gb) ==
    IF total_ram_gb # None THEN total_ram_gb[1] < 100 * 100 ELSE FALSE

\* ------------------------------------------------------------------------
\* main: the menu loop (lines 595-658)
\* ------------------------------------------------------------------------

ReleaseOutputs == { Failed, Stdout("13\n"), Stdout("9\n"), Stdout("8.1.0\n") }

SdkOutputs == { Failed, Stdout("25\n"), Stdout("27\n"), Stdout("35\n") }

AbiOutputs == { Failed, Stdout("arm64-v8a\n"), Stdout("armeabi-v7a\n") }

MeminfoOutputs ==
    { Failed,
      Stdout(""),
      Stdout("MemFree:          204800 kB\n"),
      Stdout("MemTotal:        3858000 kB\nMemFree:          204800 kB\n"),
      Stdout("MemTotal:\n"),
      Stdout("MemTotal:        lots kB\n"),
      Stdout("MemTotal:        104852357 kB\n"),
      Stdout("MemTotal:        104852358 kB\n"),
      Stdout("MemTotal:        104857600 kB\n") }

\* The profile main computes from the five command results (lines 602-613),
\* with the answers the version and the memory were read from; the API level
\* is None when the command for it was not issued.
PredictedProfile(release_version_str, sdk_version_str, abi_output, abi2_output, meminfo_output) ==
    LET android_os_version == GetAndroidOsVersion(release_version_str, sdk_version_str)
        has_arm8_support == CheckArm8SupportOnDevice(abi_output, abi2_output)
        total_ram_gb == GetDeviceRamGb(meminfo_output)
        is_memory_less_than_100gb == IsMemoryLessThan100Gb(total_ram_gb)
    IN  [release_version_str |-> Some(release_version_str),
         sdk_version_str |-> IF ReleaseDecides(release_version_str) THEN None
                             ELSE Some(sdk_version_str),
         meminfo_output |-> Some(meminfo_output),
         android_os_version |-> android_os_version,
         has_arm8_support |-> has_arm8_support,
         total_ram_gb |-> total_ram_gb,
         is_memory_less_than_100gb |-> is_memory_less_than_100gb,
         predicted_liteage_version |->
             Some(CalculateLiteageosVersion(android_os_version, has_arm8_support,
                                            is_memory_less_than_100gb))]

\* The profiles main can compute from the modelled device answers. The API
\* level is read only when the release property does not decide.
DeviceProfiles ==
    UNION { { PredictedProfile(release_version_str, sdk_version_str, abi_output,
                               abi2_output, meminfo_output) :
                  sdk_version_str \in IF ReleaseDecides(release_version_str)
                                      THEN {Failed} ELSE SdkOutputs } :
            <<release_version_str, abi_output, abi2_output, meminfo_output>> \in
                ReleaseOutputs \X AbiOutputs \X AbiOutputs \X MeminfoOutputs }

\* Two of them, which the session specification draws from: a device that
\* answers every property, and one that answers none.
TypicalProfiles ==
    { PredictedProfile(Stdout("13\n"), Failed, Stdout("arm64-v8a\n"), Failed,
                       Stdout("MemTotal:        3858000 kB\nMemFree:          204800 kB\n")),
      PredictedProfile(Failed, Failed, Failed, Failed, Failed) }

\* Top of a menu iteration: read the device profile and print the predicted
\* version (lines 597-615).
PredictVersionAmong(profiles) ==
    /\ pc = "menu"
    /\ profile' \in profiles
    /\ pc' = "choice"
    /\ UNCHANGED <<exitCode, log, runs>>
    /\ UNCHANGED <<sessionVars, runVars, envVars>>

\* over every modelled device answer
PredictVersion == PredictVersionAmong(DeviceProfiles)

\* over the two typical devices
PredictVersionTypical == PredictVersionAmong(TypicalProfiles)

\* lines 629-646: the settings the pre-configuration prompts produce
PreConfiguration(launcher_action_input, launcher_choice, optional_input) ==
    [install_launcher_action |-> Lower(launcher_action_input) = "y",
     chosen_launcher_apk |->
         IF Lower(launcher_action_input) # "y" THEN None
         ELSE IF launcher_choice = "1" THEN Some("Litechair.apk")
         ELSE Some("Litechair_legacy.apk"),
     install_optional_apps_config |-> Some(Lower(optional_input))]

\* The while loops of lines 635 and 645 ask again until the answer is valid,
\* so the last, valid answers are drawn.
InstallConfigs ==
    { PreConfiguration(launcher_action_input, launcher_choice, optional_input) :
          <<launcher_action_input, launcher_choice, optional_input>> \in
              {"y", "Y", "n", ""} \X {"1", "2"} \X {"y", "Y", "n", "N"} }

\* Bottom of a menu iteration: the action prompt and, for an install, the
\* pre-configuration prompts (lines 622-656). The locals of the prediction
\* block are kept through an install run, the run whose independence of them
\* is a stated property, and dropped on the other branches, where nothing
\* follows that reads them.
ChooseAction ==
    /\ pc = "choice"
    /\ \/ /\ runs < MaxRuns
          /\ config' \in InstallConfigs
          /\ pc' = "install_launcher"
          /\ runs' = runs + 1
          /\ log' = << >>
          /\ UNCHANGED <<exitCode, profile>>
       \/ /\ runs < MaxRuns
          /\ pc' = "wipe_confirm"
          /\ runs' = runs + 1
          /\ log' = << >>
          /\ profile' = NoProfile
          /\ UNCHANGED <<config, exitCode>>
       \/ /\ pc' = "exited"
          /\ exitCode' = Some(0)
          /\ log' = Msg("exiting", "user")
          /\ profile' = NoProfile
          /\ UNCHANGED <<config, runs>>
       \/ /\ pc' = "pause"
          /\ log' = << >>
          /\ profile' = NoProfile
          /\ UNCHANGED <<config, runs, exitCode>>
    /\ UNCHANGED <<idx, confirm, packages_to_uninstall, targets, attempted,
                   identified, uninstalled>>
    /\ UNCHANGED <<sessionVars, envVars>>

\* lines 661-666: an exception of class Exception raised inside the try block
\* reaches the handler of main, which logs it and calls sys.exit(1). Modelled
\* at the action prompt, where input() raises EOFError once standard input
\* has ended.
CriticalError ==
    /\ pc = "choice"
    /\ ExitProcess(1)
    /\ profile' = NoProfile
    /\ log' = Msg("critical_error", "main")
    /\ UNCHANGED runs
    /\ UNCHANGED <<sessionVars, runVars, envVars>>

\* "Press Enter to continue to the main menu..." (line 658). The locals of the
\* finished iteration are dropped with its history: the next iteration
\* assigns them anew before it reads them.
ContinueToMenu ==
    /\ pc = "pause"
    /\ pc' = "menu"
    /\ profile' = NoProfile
    /\ config' = NoConfig
    /\ idx' = 0
    /\ confirm' = None
    /\ packages_to_uninstall' = << >>
    /\ targets' = << >>
    /\ log' = << >>
    /\ attempted' = {}
    /\ identified' = {}
    /\ uninstalled' = << >>
    /\ UNCHANGED <<exitCode, runs>>
    /\ UNCHANGED <<sessionVars, envVars>>

BoolFault(ok) == IF ok THEN 0 ELSE 1

\* What the environment may still answer: anything in S while the fault budget
\* lasts, the fault-free answer after that.
Draw(S, nominal) == IF MayFault THEN S ELSE {nominal}

\* The answers of a command that is issued only when `issued` holds: a command
\* that is not issued has no answer to draw.
Answers(issued, S, nominal) == IF issued THEN Draw(S, nominal) ELSE {nominal}

\* ------------------------------------------------------------------------
\* download_file (lines 242-273)
\* ------------------------------------------------------------------------

\* os.path.exists(os.path.join(TEMP_DIR, filename))
OsPathExists(filename) == cache[filename] # "absent"

\* How a transfer can end: the whole body written; a transport error before
\* the file is opened (requests.get or raise_for_status raises); a transport
\* error while iter_content streams into the opened file.
TransferOutcomes == {"ok", "refused", "broken"}

\* lines 261-273: open(filepath, 'wb') creates the file and the except clause
\* does not remove it, so a broken stream leaves what was written so far.
Transfer(filename, net) ==
    [ret |-> IF net = "ok" THEN Some(filename) ELSE None,
     cache |-> [cache EXCEPT ![filename] =
                    IF net = "ok" THEN "complete"
                    ELSE IF net = "broken" THEN "partial"
                    ELSE "absent"],
     log |-> Cmd("transfer", filename, net = "ok"),
     faults |-> BoolFault(net = "ok")]

\* A download_file without the existence check of line 257.
DownloadFileNoCacheCheck(filename, net) == Transfer(filename, net)

DownloadFile(filename, net) ==
    IF OsPathExists(filename)
    THEN [ret |-> Some(filename), cache |-> cache,
          log |-> Msg("cached", filename), faults |-> 0]
    ELSE Transfer(filename, net)

\* ------------------------------------------------------------------------
\* get_package_name_from_apk (lines 217-240)
\* ------------------------------------------------------------------------

\* The package identity inside each released APK. The identities of the two
\* launchers and of the calendar are the ones the uninstall lists name
\* (lines 542-543, 562).
PkgOf(apk) ==
    CASE apk = "Litechair.apk" -> "app.lawnchair.nightly"
      [] apk = "Litechair_legacy.apk" -> "ch.deletescape.lawnchair"
      [] apk = "Calender.apk" -> "org.lineageos.etar"
      [] OTHER -> "org.liteage." \o apk

\* `aapt dump badging` of an intact APK
Badging(apk) ==
    Stdout("package: name='" \o PkgOf(apk) \o "' versionCode='1'\nsdkVersion:'21'\n")

\* Badging, tabulated once for every asset name.
BadgingOf == [apk \in Assets |-> Badging(apk)]

\* The answers that are faults for an intact APK: failure, empty output,
\* output without the package line, a package line without the quoted name.
AaptFaultyOutputs ==
    { Failed, Stdout(""), Stdout("application-label:'App'\n"), Stdout("package: name=\n") }

\* The fault-free answer for a cached file: a truncated file is no readable
\* archive and the command fails.
AaptNominal(apk, file) == IF file = "partial" THEN Failed ELSE BadgingOf[apk]

\* What `aapt dump badging` can answer for a cached file.
AaptDumpOutputs(apk, file) ==
    IF file = "partial" THEN {Failed}
    ELSE {BadgingOf[apk]} \cup AaptFaultyOutputs

\* lines 230-237: the quoted name of the first line holding "package: name=";
\* split("name='")[1] raises IndexError when the quote is missing, which the
\* except clause of line 238 turns into None.
\* lines 233-234: line.split("name='")[1].split("'")[0]
QuotedName(parts) ==
    IF Len(parts) < 2 THEN None ELSE Some(Split(parts[2], "'")[1])

\* lines 231-237: the loop over the lines returns at the first marker
NameOfFirstMarker(lines) ==
    LET hits == {k \in 1..Len(lines) : Contains(lines[k], "package: name=")}
    IN  IF hits = {} THEN None
        ELSE QuotedName(Split(lines[CHOOSE k \in hits : \A m \in hits : k <= m], "name='"))

ParsePackageName(r) ==
    IF ~Truthy(r) THEN None ELSE NameOfFirstMarker(SplitLines(r.out))

\* ParsePackageName, tabulated once for every modelled answer.
PackageNameIn ==
    [r \in {BadgingOf[apk] : apk \in Assets} \cup AaptFaultyOutputs |-> ParsePackageName(r)]

\* lines 234-239: the name found is logged, and so is the failure to find one
PackageNameLog(apk, package_name) ==
    IF package_name # None THEN Msg("package_name", package_name[1])
    ELSE Msg("package_unresolved", apk)

\* lines 227-240: what the function returns and logs once aapt has answered
PackageNameResult(apk, ok, package_name, f) ==
    [ret |-> package_name,
     log |-> Cmd("aapt_dump", apk, ok) \o PackageNameLog(apk, package_name),
     faults |-> f]

\* An identification that invokes the inspector whatever the capability flag.
GetPackageNameFromApkAlwaysInvoking(apk, file, r) ==
    PackageNameResult(apk, r.ok, PackageNameIn[r], BoolFault(r = AaptNominal(apk, file)))

\* With the capability flag false nothing is invoked (lines 223-225). The
\* name found is logged (line 234), and so is the failure to find one (lines
\* 236, 239).
GetPackageNameFromApk(apk, file, r) ==
    IF ~aapt_available
    THEN [ret |-> None, log |-> Msg("aapt_unavailable", apk), faults |-> 0]
    ELSE PackageNameResult(apk, r.ok, PackageNameIn[r], BoolFault(r = AaptNominal(apk, file)))

\* Python truthiness of an optional string: None and "" are falsy.
PyTrue(opt) == opt # None /\ opt[1] # ""

\* ------------------------------------------------------------------------
\* push_and_install_apk, set_default_launcher, set_wallpaper (lines 275-342)
\* ------------------------------------------------------------------------

\* `pm install` of a truncated APK fails; of an intact one it is the
\* environment's answer.
InstallAnswer(file, instOk) == file = "complete" /\ instOk

\* A push-and-install that reports success whatever the commands returned.
PushAndInstallApkReportingSuccess(apk, file, pushOk, instOk) ==
    IF ~pushOk
    THEN [ret |-> TRUE, log |-> Cmd("push", apk, FALSE), faults |-> 1]
    ELSE [ret |-> TRUE,
          log |-> Cmd("push", apk, TRUE) \o Cmd("install", apk, InstallAnswer(file, instOk)),
          faults |-> IF file = "complete" THEN BoolFault(instOk) ELSE 0]

\* A push-and-install that issues the install command after a failed push.
PushAndInstallApkInstallingAnyway(apk, file, pushOk, instOk) ==
    [ret |-> pushOk /\ InstallAnswer(file, instOk),
     log |-> Cmd("push", apk, pushOk) \o Cmd("install", apk, InstallAnswer(file, instOk)),
     faults |-> BoolFault(pushOk)]

\* lines 275-298
PushAndInstallApk(apk, file, pushOk, instOk) ==
    IF ~pushOk
    THEN [ret |-> FALSE, log |-> Cmd("push", apk, FALSE), faults |-> 1]
    ELSE [ret |-> InstallAnswer(file, instOk),
          log |-> Cmd("push", apk, TRUE) \o Cmd("install", apk, InstallAnswer(file, instOk)),
          faults |-> IF file = "complete" THEN BoolFault(instOk) ELSE 0]

SetDefaultLauncher(package_name, homeOk) ==
    IF ~PyTrue(package_name)
    THEN [ret |-> FALSE, log |-> Msg("manual_launcher", "unresolved"), faults |-> 0]
    ELSE [ret |-> homeOk,
          log |-> Cmd("set_home", package_name[1], homeOk)
                  \o (IF homeOk THEN << >> ELSE Msg("manual_launcher", package_name[1])),
          faults |-> BoolFault(homeOk)]

\* A set_wallpaper that goes on to the set command after a failed push.
SetWallpaperAfterAnyPush(image, pushOk, setOk) ==
    [ret |-> setOk,
     log |-> Cmd("push_wallpaper", image, pushOk) \o Cmd("set_wallpaper", image, setOk)
             \o (IF setOk THEN << >> ELSE Msg("manual_wallpaper", image)),
     faults |-> BoolFault(pushOk) + BoolFault(setOk)]

SetWallpaper(image, pushOk, setOk) ==
    IF ~pushOk
    THEN [ret |-> FALSE, log |-> Cmd("push_wallpaper", image, FALSE), faults |-> 1]
    ELSE [ret |-> setOk,
          log |-> Cmd("push_wallpaper", image, TRUE) \o Cmd("set_wallpaper", image, setOk)
                  \o (IF setOk THEN << >> ELSE Msg("manual_wallpaper", image)),
          faults |-> BoolFault(setOk)]

\* ------------------------------------------------------------------------
\* install_liteageos_components (lines 442-529)
\* ------------------------------------------------------------------------

\* What a block of an orchestrator leaves behind.
Effect(c, l, f) == [cache |-> c, log |-> l, faults |-> f]

\* A block's effect is taken when the session's fault budget covers it.
Apply(e) ==
    /\ faults + e.faults <= MaxFaults
    /\ cache' = e.cache
    /\ log' = e.log
    /\ attempted' = attempted \cup Resolved(e.log)
    /\ identified' = identified \cup Identified(e.log)
    /\ faults' = faults + e.faults

\* line 469
\* lines 155-156: run_command logs the standard output it captured
StdoutLog(p) == IF Truthy(p) THEN Msg("stdout", p.out) ELSE << >>

\* What `pm path` answers: the path of the installed package, a failure, no
\* output, or output without a path.
PmPathAnswer(installed, package_name) ==
    IF installed = "yes" THEN Stdout("package:/data/app/" \o package_name[1] \o "/base.apk\n")
    ELSE IF installed = "no" THEN Failed
    ELSE IF installed = "empty" THEN Stdout("")
    ELSE Stdout("Failure calling service package\n")

\* A test that takes every answer of the query as a sign of the package.
IsInstalledOnDeviceIfAnswered(p) == Truthy(p)

\* line 469
IsInstalledOnDevice(p) == Truthy(p) /\ Contains(p.out, "package:")

\* A choice that takes every answer but 'n' as a yes.
MakeDefaultUnlessNo(make_default) == make_default # "n"

\* line 472: make_default == 'y'
MakeDefaultChosen(make_default) == make_default = "y"

\* lines 465-484, with the launcher's identity resolved; the prompt of line
\* 471 is recorded with its lowered answer
LauncherInstallBlock(apk, file, package_name, p, make_default, pushOk, instOk, homeOk) ==
    LET q == Cmd("pm_path", package_name[1], p.ok) \o StdoutLog(p)
        h == SetDefaultLauncher(package_name, homeOk)
        pi == PushAndInstallApk(apk, file, pushOk, instOk)
        asked == Msg("already_installed", package_name[1]) \o Msg("make_default", make_default)
    IN  IF IsInstalledOnDevice(p)
        THEN IF MakeDefaultChosen(make_default)
             THEN [log |-> q \o asked \o h.log, faults |-> h.faults]
             ELSE [log |-> q \o asked \o Msg("skip_default", package_name[1]),
                   faults |-> 0]
        ELSE IF pi.ret
        THEN [log |-> q \o pi.log \o h.log, faults |-> pi.faults + h.faults]
        ELSE [log |-> q \o pi.log \o Msg("launcher_install_failed", apk),
              faults |-> pi.faults]

\* A launcher block that, without an identity, sets the home activity by the
\* name of the file.
LauncherBlockGuessingIdentity(apk, net, r, installed, make_default, pushOk, instOk, homeOk) ==
    LET d == DownloadFile(apk, net)
        file == d.cache[apk]
        g == GetPackageNameFromApk(apk, file, r)
        p == PmPathAnswer(installed, g.ret)
        b == LauncherInstallBlock(apk, file, g.ret, p, Lower(make_default),
                                  pushOk, instOk, homeOk)
    IN  IF d.ret = None
        THEN Effect(d.cache,
                    d.log \o Msg("launcher_download_failed", apk), d.faults)
        ELSE IF PyTrue(g.ret)
        THEN Effect(d.cache, d.log \o g.log \o b.log,
                    d.faults + g.faults + b.faults)
        ELSE Effect(d.cache,
                    d.log \o g.log \o Cmd("set_home", apk, TRUE),
                    d.faults + g.faults)

\* lines 449-487, with a launcher chosen
LauncherBlock(apk, net, r, installed, make_default, pushOk, instOk, homeOk) ==
    LET d == DownloadFile(apk, net)
        file == d.cache[apk]
        g == GetPackageNameFromApk(apk, file, r)
        \* `pm path`: the package path when installed; a failed command or an
        \* empty answer when not
        p == PmPathAnswer(installed, g.ret)
        b == LauncherInstallBlock(apk, file, g.ret, p, Lower(make_default),
                                  pushOk, instOk, homeOk)
    IN  IF d.ret = None
        THEN Effect(d.cache,
                    d.log \o Msg("launcher_download_failed", apk), d.faults)
        ELSE IF PyTrue(g.ret)
        THEN Effect(d.cache, d.log \o g.log \o b.log,
                    d.faults + g.faults + b.faults)
        ELSE Effect(d.cache,
                    d.log \o g.log \o Msg("launcher_unresolved", apk),
                    d.faults + g.faults)

InstallLauncher ==
    /\ pc = "install_launcher"
    /\ IF config.install_launcher_action
       THEN LET apk == config.chosen_launcher_apk[1]
            IN  \E net \in Answers(~OsPathExists(apk), TransferOutcomes, "ok") :
                   LET d == DownloadFile(apk, net)
                       file == d.cache[apk]
                       got == d.ret # None
                   IN  \E r \in Answers(got /\ aapt_available,
                                        AaptDumpOutputs(apk, file), AaptNominal(apk, file)) :
                          LET named == got /\ PyTrue(GetPackageNameFromApk(apk, file, r).ret)
                          IN  \E installed \in IF named THEN {"yes", "no", "empty", "other"} ELSE {"no"} :
                                 LET present == named /\ installed = "yes"
                                     absent == named /\ installed # "yes"
                                 IN  \E make_default \in IF present THEN {"y", "Y", "n", ""} ELSE {"n"},
                                        pushOk \in Answers(absent, BOOLEAN, TRUE),
                                        instOk \in Answers(absent /\ file = "complete", BOOLEAN, TRUE),
                                        homeOk \in Answers(named, BOOLEAN, TRUE) :
                                        Apply(LauncherBlock(apk, net, r, installed, make_default,
                                                            pushOk, instOk, homeOk))
       ELSE Apply(Effect(cache, Msg("skip_launcher", "user"), 0))
    /\ pc' = "install_apps"
    /\ idx' = 1
    /\ UNCHANGED <<exitCode, profile, runs, config, confirm, packages_to_uninstall,
                   targets, uninstalled>>
    /\ UNCHANGED sessionVars

\* A decision that installs optional components only on a device whose
\* label carries the small-memory suffix.
InstallDecisionBySmallMemory(optional, install_optional_apps_config) ==
    \/ ~optional
    \/ optional /\ install_optional_apps_config = Some("y")
                /\ profile.is_memory_less_than_100gb

\* A decision that ignores the optional flag.
InstallDecisionIgnoringFlag(optional, install_optional_apps_config) == TRUE

\* lines 499-503: install_app == 'y'
InstallDecision(optional, install_optional_apps_config) ==
    \/ ~optional
    \/ optional /\ install_optional_apps_config = Some("y")

\* lines 494-516: one iteration of the loop over LINEAGEOS_COMPONENTS
\* An application block that pushes only an asset whose identity was resolved.
AppBlockNeedingIdentity(apk, optional, net, r, pushOk, instOk) ==
    LET d == DownloadFile(apk, net)
        file == d.cache[apk]
        g == GetPackageNameFromApk(apk, file, r)
        pi == PushAndInstallApk(apk, file, pushOk, instOk)
    IN  IF apk \in LAUNCHERS
        THEN Effect(cache, << >>, 0)
        ELSE IF ~InstallDecision(optional, config.install_optional_apps_config)
        THEN Effect(cache, Msg("skip", apk), 0)
        ELSE IF d.ret = None
        THEN Effect(d.cache, d.log \o Msg("download_failed", apk), d.faults)
        ELSE IF PyTrue(g.ret)
        THEN Effect(d.cache, d.log \o g.log \o pi.log,
                    d.faults + g.faults + pi.faults)
        ELSE Effect(d.cache, d.log \o g.log, d.faults + g.faults)

AppBlock(apk, optional, net, r, pushOk, instOk) ==
    LET d == DownloadFile(apk, net)
        file == d.cache[apk]
        g == GetPackageNameFromApk(apk, file, r)
        pi == PushAndInstallApk(apk, file, pushOk, instOk)
    IN  IF apk \in LAUNCHERS
        THEN Effect(cache, << >>, 0)
        ELSE IF ~InstallDecision(optional, config.install_optional_apps_config)
        THEN Effect(cache, Msg("skip", apk), 0)
        ELSE IF d.ret = None
        THEN Effect(d.cache, d.log \o Msg("download_failed", apk), d.faults)
        ELSE Effect(d.cache, d.log \o g.log \o pi.log,
                    d.faults + g.faults + pi.faults)

\* A loop that gives the run up after a component that met a fault.
AfterAppUnlessFault(i, e) ==
    IF e.faults > 0 THEN "pause"
    ELSE IF i = NumComponents THEN "install_wallpaper" ELSE "install_apps"

\* line 494: the for loop takes the next component whatever the iteration
\* left behind, and the wallpaper block follows the last one (line 519).
AfterApp(i, e) == IF i = NumComponents THEN "install_wallpaper" ELSE "install_apps"

InstallApp ==
    /\ pc = "install_apps"
    /\ LET apk == LINEAGEOS_COMPONENTS[idx][1]
           optional == LINEAGEOS_COMPONENTS[idx][2]
           wanted == /\ apk \notin LAUNCHERS
                     /\ InstallDecision(optional, config.install_optional_apps_config)
       IN  \E net \in Answers(wanted /\ ~OsPathExists(apk), TransferOutcomes, "ok") :
              LET d == DownloadFile(apk, net)
                  file == d.cache[apk]
                  got == wanted /\ d.ret # None
              IN  \E r \in Answers(got /\ aapt_available,
                                   AaptDumpOutputs(apk, file), AaptNominal(apk, file)),
                     pushOk \in Answers(got, BOOLEAN, TRUE),
                     instOk \in Answers(got /\ file = "complete", BOOLEAN, TRUE) :
                     LET e == AppBlock(apk, optional, net, r, pushOk, instOk)
                     IN  /\ Apply(e)
                         /\ pc' = AfterApp(idx, e)
    /\ idx' = idx + 1
    /\ UNCHANGED <<exitCode, profile, runs, config, confirm, packages_to_uninstall,
                   targets, uninstalled>>
    /\ UNCHANGED sessionVars

\* lines 519-529
WallpaperBlock(net, pushOk, setOk) ==
    LET d == DownloadFile(WALLPAPER_FILENAME, net)
        w == SetWallpaper(WALLPAPER_FILENAME, pushOk, setOk)
    IN  IF d.ret = None
        THEN Effect(d.cache,
                    d.log \o Msg("wallpaper_download_failed", WALLPAPER_FILENAME)
                    \o Msg("install_complete", "run"), d.faults)
        ELSE Effect(d.cache,
                    d.log \o w.log \o Msg("install_complete", "run"),
                    d.faults + w.faults)

InstallWallpaper ==
    /\ pc = "install_wallpaper"
    /\ \E net \in Answers(~OsPathExists(WALLPAPER_FILENAME), TransferOutcomes, "ok") :
          LET got == DownloadFile(WALLPAPER_FILENAME, net).ret # None
          IN  \E pushOk \in Answers(got, BOOLEAN, TRUE), setOk \in Answers(got, BOOLEAN, TRUE) :
                 Apply(WallpaperBlock(net, pushOk, setOk))
    /\ pc' = "pause"
    /\ UNCHANGED <<exitCode, profile, runs, config, idx, confirm, packages_to_uninstall,
                   targets, uninstalled>>
    /\ UNCHANGED sessionVars

\* ------------------------------------------------------------------------
\* wipe_liteageos_components (lines 531-575)
\* ------------------------------------------------------------------------

\* lines 542-543
KnownLauncherPackages == <<"app.lawnchair.nightly", "ch.deletescape.lawnchair">>

\* A force-remove list without the clock.
ForcedPackagesWithoutClock == <<"org.lineageos.etar", "org.lineageos.aperture.dev">>

\* lines 562-564
ForcedPackages == <<"org.lineageos.etar", "org.lineageos.aperture.dev", "com.android.deskclock">>

\* A confirmation that takes every answer but 'n' as a yes.
WipeConfirmedUnlessNo(answer) == answer # "n"

\* line 535: confirm == 'y'
WipeConfirmed(answer) == answer = "y"

\* lines 534-543: the confirmation prompt
WipeConfirm ==
    /\ pc = "wipe_confirm"
    /\ \E answer \in {"y", "Y", "n", "N", "", "yes"} :
          /\ confirm' = Some(Lower(answer))
          /\ IF WipeConfirmed(Lower(answer))
             THEN /\ packages_to_uninstall' = KnownLauncherPackages
                  /\ idx' = 1
                  /\ pc' = "wipe_collect"
                  /\ log' = << >>
             ELSE /\ pc' = "pause"
                  /\ log' = Msg("uninstall_cancelled", "user")
                  /\ UNCHANGED <<packages_to_uninstall, idx>>
    /\ UNCHANGED <<exitCode, profile, runs, config, targets, attempted,
                   identified, uninstalled>>
    /\ UNCHANGED <<sessionVars, envVars>>

\* A collection that lists the file name of a component whose identity is
\* unresolved.
CollectBlockWithPlaceholder(apk, net, r) ==
    LET d == IF ~OsPathExists(apk) THEN DownloadFile(apk, net)
             ELSE [ret |-> None, cache |-> cache, log |-> << >>, faults |-> 0]
        file == d.cache[apk]
        g == GetPackageNameFromApk(apk, file, r)
    IN  IF file = "absent"
        THEN [e |-> Effect(d.cache, d.log \o Msg("skip_missing", apk), d.faults),
              found |-> <<apk>>]
        ELSE [e |-> Effect(d.cache, d.log \o g.log, d.faults + g.faults),
              found |-> IF PyTrue(g.ret) THEN <<g.ret[1]>> ELSE <<apk>>]

\* lines 546-559: one iteration of the loop over LINEAGEOS_COMPONENTS.keys()
CollectBlock(apk, net, r) ==
    LET d == IF ~OsPathExists(apk) THEN DownloadFile(apk, net)
             ELSE [ret |-> None, cache |-> cache, log |-> << >>, faults |-> 0]
        file == d.cache[apk]
        g == GetPackageNameFromApk(apk, file, r)
    IN  IF file = "absent"
        THEN [e |-> Effect(d.cache, d.log \o Msg("skip_missing", apk), d.faults),
              found |-> << >>]
        ELSE IF PyTrue(g.ret)
        THEN [e |-> Effect(d.cache, d.log \o g.log, d.faults + g.faults),
              found |-> <<g.ret[1]>>]
        ELSE [e |-> Effect(d.cache, d.log \o g.log \o Msg("skip_unresolved", apk),
                           d.faults + g.faults),
              found |-> << >>]

WipeCollect ==
    /\ pc = "wipe_collect"
    /\ idx <= NumComponents
    /\ LET apk == LINEAGEOS_COMPONENTS[idx][1]
       IN  \E net \in Answers(~OsPathExists(apk), TransferOutcomes, "ok") :
              \E r \in LET file == IF OsPathExists(apk) THEN cache[apk]
                                   ELSE DownloadFile(apk, net).cache[apk]
                       IN  Answers(file # "absent" /\ aapt_available,
                                   AaptDumpOutputs(apk, file), AaptNominal(apk, file)) :
                 LET b == CollectBlock(apk, net, r)
                 IN  /\ Apply(b.e)
                     /\ packages_to_uninstall' = packages_to_uninstall \o b.found
    /\ idx' = idx + 1
    /\ UNCHANGED <<pc, exitCode, profile, runs, config, confirm, targets, uninstalled>>
    /\ UNCHANGED sessionVars

\* The elements of a list without repetition, in the order of first occurrence.
RECURSIVE Distinct(_)
Distinct(list) ==
    IF list = << >> THEN << >>
    ELSE LET front == Distinct(SubSeq(list, 1, Len(list) - 1))
             last == list[Len(list)]
         IN  IF \E k \in DOMAIN front : front[k] = last THEN front
             ELSE Append(front, last)

Reverse(list) == [k \in 1..Len(list) |-> list[Len(list) + 1 - k]]

\* An iteration that visits the list itself, repetitions included.
IterationOrdersOfList(list) == {list}

\* for package in set(list): every distinct element once. The order is the
\* hash order of the process; two orders are modelled.
IterationOrders(list) == {Distinct(list), Reverse(Distinct(list))}

\* lines 562-567: the forced packages are appended and the set is built
WipeBuildSet ==
    /\ pc = "wipe_collect"
    /\ idx = NumComponents + 1
    /\ packages_to_uninstall' = packages_to_uninstall \o ForcedPackages
    /\ targets' \in IterationOrders(packages_to_uninstall')
    /\ idx' = 1
    /\ pc' = "wipe_uninstall"
    /\ log' = << >>
    /\ UNCHANGED <<exitCode, profile, runs, config, confirm, attempted,
                   identified, uninstalled>>
    /\ UNCHANGED <<sessionVars, envVars>>

\* lines 567-575: one iteration of the uninstall loop; after the last one the
\* completion message is logged and the function returns. An uninstall fails
\* whenever the package is not installed or is a system app: its failure is an
\* ordinary answer, outside the fault budget.
\* A loop that gives the run up after an uninstall command that failed.
AfterUninstallUnlessFailed(i, ok) ==
    IF ~ok \/ i = Len(targets) THEN "pause" ELSE "wipe_uninstall"

\* lines 567-575: the for loop takes the next package whatever the command
\* returned (the else branch of line 572 only logs a warning).
AfterUninstall(i, ok) == IF i = Len(targets) THEN "pause" ELSE "wipe_uninstall"

WipeUninstall ==
    /\ pc = "wipe_uninstall"
    /\ \E ok \in BOOLEAN :
          /\ log' = Cmd("uninstall", targets[idx], ok)
                    \o (IF idx = Len(targets) THEN Msg("uninstall_complete", "run")
                        ELSE << >>)
          /\ pc' = AfterUninstall(idx, ok)
    /\ uninstalled' = Append(uninstalled, targets[idx])
    /\ idx' = idx + 1
    /\ UNCHANGED <<exitCode, profile, runs, config, confirm, packages_to_uninstall,
                   targets, attempted, identified, cache, faults>>
    /\ UNCHANGED sessionVars

\* The session: startup, the menu loop on a typical device, install and
\* uninstall runs.
Next ==
    \/ CheckAdbConnection
    \/ CheckAaptAvailability
    \/ PredictVersionTypical
    \/ ChooseAction
    \/ CriticalError
    \/ ContinueToMenu
    \/ InstallLauncher
    \/ InstallApp
    \/ InstallWallpaper
    \/ WipeConfirm
    \/ WipeCollect
    \/ WipeBuildSet
    \/ WipeUninstall

Spec == Init /\ [][Next]_vars

\* The menu alone, over every modelled device answer: startup, prediction,
\* the action prompt and the way back to the menu.
NextMenu ==
    \/ CheckAdbConnection
    \/ CheckAaptAvailability
    \/ PredictVersion
    \/ ChooseAction
    \/ CriticalError
    \/ ContinueToMenu

SpecMenu == Init /\ [][NextMenu]_vars

\* ------------------------------------------------------------------------
\* Properties
\* ------------------------------------------------------------------------

\* The decimal numeral of an integer, digit by digit.
RECURSIVE Numeral(_)
Numeral(n) ==
    IF n < 0 THEN "-" \o Numeral(0 - n)
    ELSE IF n < 10 THEN Digits[n + 1]
    ELSE Numeral(n \div 10) \o Digits[(n % 10) + 1]

\* The label the specification states for a device profile.
StatedLabel(osVersion, supportsArm64, ramGb) ==
    (IF osVersion = None THEN "???" ELSE Numeral(osVersion[1] + 10))
    \o (IF supportsArm64 THEN "+" ELSE "")
    \o (IF ramGb # None /\ ramGb[1] < 100 * 100 THEN "S" ELSE "")

\* C1: for every device profile the menu computes, the version label is the
\* numeral of osVersion + 10 (or "???" when the OS version is unresolved),
\* then "+" exactly when arm64 is supported, then "S" exactly when the RAM is
\* resolved and below 100 GB; a label is produced for every profile.
C1_VersionLabel ==
    pc = "choice" =>
        profile.predicted_liteage_version =
            Some(StatedLabel(profile.android_os_version, profile.has_arm8_support,
                             profile.total_ram_gb))

\* An arm64 device of unknown RAM running Android 13 is labelled "23+".
C1_Witness ==
    /\ pc = "choice"
    /\ profile.android_os_version = Some(13)
    /\ profile.has_arm8_support
    /\ profile.total_ram_gb = None
    /\ profile.predicted_liteage_version = Some("23+")

\* An install run is under way or has just ended.
InInstallRun ==
    \/ pc \in {"install_apps", "install_wallpaper"}
    \/ pc = "pause" /\ config.install_optional_apps_config # None

\* The kinds of history entry that are transfers, cache hits or commands for
\* an asset.
AssetCommandKinds == {"cached", "transfer", "aapt_dump", "push", "install"}

\* C2: in an install run a component of the application list is resolved
\* exactly when its iteration has run and it is mandatory or the optional
\* flag is 'y'; with any other flag no transfer, cache hit, inspection, push
\* or install is issued for an optional component.
C2_OptionalGating ==
    InInstallRun =>
        \A k \in 1..NumComponents :
            LET apk == LINEAGEOS_COMPONENTS[k][1]
                optional == LINEAGEOS_COMPONENTS[k][2]
                flagged == config.install_optional_apps_config = Some("y")
            IN  /\ apk \in attempted <=> (k < idx /\ (~optional \/ flagged))
                /\ (optional /\ ~flagged) => apk \notin Subjects(log, AssetCommandKinds)

\* The optional component has just been skipped under a negative flag, after
\* the mandatory one before it was resolved.
C2_Witness ==
    /\ pc = "install_wallpaper"
    /\ config.install_optional_apps_config = Some("n")
    /\ log = Msg("skip", "Aurora.apk")
    /\ "Gallery.apk" \in attempted
    /\ "Aurora.apk" \notin attempted

\* The number of positions of a list that hold x.
Occurrences(list, x) == Cardinality({k \in DOMAIN list : list[k] = x})

\* C3: in a confirmed uninstall run no package identity receives a second
\* uninstall command, and when the run ends every identity of the list has
\* received exactly one, however many times the list names it.
C3_OneUninstallPerIdentity ==
    /\ \A k \in DOMAIN uninstalled : Occurrences(uninstalled, uninstalled[k]) = 1
    /\ (pc = "pause" /\ confirm = Some("y")) =>
           \A k \in DOMAIN packages_to_uninstall :
               Occurrences(uninstalled, packages_to_uninstall[k]) = 1

\* A finished run whose list names the calendar's identity twice, once as the
\* resolved component and once as a forced package.
C3_Witness ==
    /\ pc = "pause"
    /\ confirm = Some("y")
    /\ Occurrences(packages_to_uninstall, "org.lineageos.etar") = 2
    /\ Occurrences(uninstalled, "org.lineageos.etar") = 1

\* C4: when the confirmation answer is not the affirmative one, the uninstall
\* function returns at once: no transfer, no package inspection and no device
\* command is issued, and the asset cache is unchanged.
C4_NoEffectUnlessConfirmed ==
    [][(pc = "wipe_confirm" /\ confirm' # Some("y")) =>
           /\ pc' = "pause"
           /\ cache' = cache
           /\ log' = Msg("uninstall_cancelled", "user")
           /\ attempted' = attempted
           /\ uninstalled' = << >>
           /\ packages_to_uninstall' = << >>]_vars

\* The function has returned on the answer "yes".
C4_Witness ==
    /\ pc = "pause"
    /\ confirm = Some("yes")
    /\ log = Msg("uninstall_cancelled", "user")

\* The positions of main at which the next step calls download_file.
DownloadingPositions == {"install_launcher", "install_apps", "install_wallpaper", "wipe_collect"}

\* C5: a call of download_file for an asset whose file is in the cache makes
\* no transfer: the step's history holds no transfer for that name, and when
\* the name was asked for, it holds the cache hit.
C5_CachedAssetNotTransferred ==
    [][(pc \in DownloadingPositions) =>
           \A k \in DOMAIN log' :
               (log'[k][1] \in {"cached", "transfer"} /\ OsPathExists(log'[k][2])) =>
                   log'[k] = <<"cached", log'[k][2], TRUE>>]_vars

\* In the session's second run a component transferred earlier is served from
\* the cache.
C5_Witness ==
    /\ runs = 2
    /\ pc = "install_apps"
    /\ cache["Music.apk"] = "complete"
    /\ log = Msg("cached", "Music.apk") \o Cmd("aapt_dump", "Music.apk", TRUE)
            \o Msg("package_name", "org.liteage.Music.apk")
            \o Cmd("push", "Music.apk", TRUE) \o Cmd("install", "Music.apk", TRUE)

\* The launcher block of an install run has just run for a chosen launcher
\* whose asset resolved, with the capability flag false.
DegradedLauncherResolved ==
    /\ pc = "install_apps"
    /\ idx = 1
    /\ config.install_launcher_action
    /\ ~aapt_available
    /\ config.chosen_launcher_apk[1] \in Resolved(log)
    /\ Entries(log, {"launcher_download_failed"}) = {}

\* C6: with the capability flag false and a chosen launcher whose asset
\* resolves, the install run issues the push and the install command for the
\* launcher asset.
C6_DegradedLauncherPushed ==
    DegradedLauncherResolved =>
        /\ config.chosen_launcher_apk[1] \in Subjects(log, {"push"})
        /\ config.chosen_launcher_apk[1] \in Subjects(log, {"install"})

\* The launcher block ended on the unresolved-identity message instead.
C6_Witness ==
    /\ DegradedLauncherResolved
    /\ log = Cmd("transfer", "Litechair.apk", TRUE) \o Msg("aapt_unavailable", "Litechair.apk")
             \o Msg("launcher_unresolved", "Litechair.apk")

\* C7: the package inspector missing from the execution path never ends the
\* process, only the device bridge missing does: a process that ended with
\* the failure code ran without the device bridge.
C7_InspectorMissingNotFatal ==
    (pc = "exited" /\ exitCode = Some(1)) => ~adbPresent

\* The process ended with code 1 at the capability probe, the device bridge
\* present and a device attached.
C7_Witness ==
    /\ pc = "exited"
    /\ exitCode = Some(1)
    /\ adbPresent
    /\ ~aaptPresent

\* The mandatory components of the application list.
MandatoryComponents ==
    {LINEAGEOS_COMPONENTS[k][1] : k \in {j \in 1..NumComponents : ~LINEAGEOS_COMPONENTS[j][2]}}

\* An install run has ended on its completion message, every mandatory
\* component and the wallpaper having been asked of download_file.
InstallRunComplete ==
    /\ pc = "pause"
    /\ log # << >>
    /\ log[Len(log)] = <<"install_complete", "run", TRUE>>
    /\ MandatoryComponents \cup {WALLPAPER_FILENAME} \subseteq attempted

\* C8: an install run is never cut short, whatever failed on the way: every
\* mandatory component whose iteration has passed was asked of download_file,
\* the loop leaves no component out, and the run ends only on its completion
\* message, with every mandatory component and the wallpaper attempted.
C8_InstallRunCompletes ==
    /\ pc = "install_apps" =>
           /\ idx \in 1..NumComponents
           /\ \A k \in 1..(idx - 1) :
                  ~LINEAGEOS_COMPONENTS[k][2] => LINEAGEOS_COMPONENTS[k][1] \in attempted
    /\ pc = "install_wallpaper" =>
           /\ idx = NumComponents + 1
           /\ MandatoryComponents \subseteq attempted
    /\ (pc = "pause" /\ config.install_optional_apps_config # None) => InstallRunComplete

\* A completed run in which the first component's download was refused.
C8_Witness ==
    /\ InstallRunComplete
    /\ cache["Music.apk"] = "absent"
    /\ cache["Gallery.apk"] = "complete"

\* C9: a transfer that fails leaves no file of the asset's name in the cache,
\* and download_file reports a cache hit only for a complete asset.
C9_FailedTransferLeavesNoFile ==
    /\ \A e \in Entries(log, {"transfer"}) : ~e[3] => cache[e[2]] = "absent"
    /\ \A e \in Entries(log, {"cached"}) : cache[e[2]] = "complete"

\* A stream that broke has left its partial file behind.
C9_Witness ==
    /\ <<"transfer", "Music.apk", FALSE>> \in Entries(log, {"transfer"})
    /\ cache["Music.apk"] = "partial"

\* A device listing names an attached, authorized device: a line after the
\* header whose state column is "device".
ListsAuthorizedDevice(text) ==
    LET lines == SplitLines(text)
    IN  \E k \in 2..Len(lines) :
           LET toks == Tokens(lines[k])
           IN  Len(toks) = 2 /\ toks[2] = "device"

\* C10: check_adb_connection returns, and the session goes on to the
\* capability probe, only on a listing that shows an attached, authorized
\* device.
C10_ReturnsOnlyWithAuthorizedDevice ==
    pc = "check_aapt" => (output # None /\ output[1].ok /\ ListsAuthorizedDevice(output[1].out))

\* check_adb_connection has returned on a listing that holds the header alone.
C10_Witness ==
    /\ pc = "check_aapt"
    /\ output = Some(Stdout("List of devices attached\n\n"))

\* C11: the process ends with code 0 when the user leaves through menu option
\* 3, also after recoverable failures, and with code 1 when the device bridge
\* is not found or an exception reaches the handler of main; a running
\* process has no exit code, and without the device bridge the session never
\* gets past its first command.
C11_ExitCodes ==
    /\ pc # "exited" => exitCode = None
    /\ pc = "exited" =>
           /\ log = Msg("exiting", "user") => exitCode = Some(0)
           /\ log = Msg("not_found", "ADB") => exitCode = Some(1)
           /\ log = Msg("critical_error", "main") => exitCode = Some(1)
    /\ ~adbPresent => \/ pc = "check_adb"
                      \/ pc = "exited" /\ log = Msg("not_found", "ADB")

\* The user has left through option 3 after a run in which a transfer broke.
C11_Witness ==
    /\ pc = "exited"
    /\ exitCode = Some(0)
    /\ log = Msg("exiting", "user")
    /\ faults > 0
    /\ \E a \in Assets : cache[a] = "partial"

\* The positions of main inside install_liteageos_components and at the pause
\* that follows it.
InstallPositions ==
    {"install_launcher", "install_apps", "install_wallpaper"}
    \cup (IF config.install_optional_apps_config # None THEN {"pause"} ELSE {})

\* The asset names an install run has asked of download_file so far, told
\* from the user's choices and the position of the run alone.
ChosenAssetsSoFar ==
    (IF pc # "install_launcher" /\ config.install_launcher_action
     THEN {config.chosen_launcher_apk[1]} ELSE {})
    \cup {LINEAGEOS_COMPONENTS[k][1] :
             k \in {j \in 1..NumComponents :
                       /\ pc # "install_launcher"
                       /\ j < idx
                       /\ \/ ~LINEAGEOS_COMPONENTS[j][2]
                          \/ config.install_optional_apps_config = Some("y")}}
    \cup (IF pc = "pause" THEN {WALLPAPER_FILENAME} ELSE {})

\* What a step taken inside an install run keeps: the assets asked for are
\* exactly those the user's choices name, every command of the step is
\* issued for an asset so named, and the profile stays as it was.
KeepsToChoices ==
    /\ profile.predicted_liteage_version # None
    /\ attempted = ChosenAssetsSoFar
    /\ (pc # "pause") =>
           /\ profile' = profile
           /\ attempted' = ChosenAssetsSoFar'
           /\ Subjects(log', AssetCommandKinds \cup {"push_wallpaper", "set_wallpaper"})
                  \subseteq attempted'

Range(list) == {list[k] : k \in DOMAIN list}

\* C13: a confirmed uninstall run attempts every identity of the target set
\* and then logs its completion message, whichever uninstall commands fail:
\* while the loop runs the identities attempted are the targets before the
\* current one, and the run ends only with all of them attempted.
C13_UninstallRunCompletes ==
    /\ pc = "wipe_uninstall" =>
           /\ idx \in 1..Len(targets)
           /\ uninstalled = SubSeq(targets, 1, idx - 1)
    /\ (pc = "pause" /\ confirm = Some("y")) =>
           /\ uninstalled = targets
           /\ Range(targets) = Range(packages_to_uninstall)
           /\ log # << >>
           /\ log[Len(log)] = <<"uninstall_complete", "run", TRUE>>

\* A run has completed although its last uninstall command failed.
C13_Witness ==
    /\ pc = "pause"
    /\ confirm = Some("y")
    /\ Len(log) = 2
    /\ log[1][1] = "uninstall"
    /\ ~log[1][3]
    /\ log[2] = <<"uninstall_complete", "run", TRUE>>
    /\ Len(uninstalled) = Len(targets)

\* A memory-info result that cannot be parsed: the command failed or printed
\* nothing, no line holds the MemTotal field, or the first line that holds it
\* has no second token or one that is no integer.
UnparsableMeminfo(m) ==
    \/ ~m.ok
    \/ m.out = ""
    \/ LET lines == SplitLines(m.out)
           fields == {k \in DOMAIN lines : Contains(lines[k], "MemTotal:")}
       IN  \/ fields = {}
           \/ \E k \in fields :
                 /\ \A j \in fields : k <= j
                 /\ \/ Len(Tokens(lines[k])) < 2
                    \/ ~IntParses(Tokens(lines[k])[2])

\* C14: get_device_ram_gb returns unresolved, and returns, for every
\* memory-info result that cannot be parsed.
C14_UnparsableRamUnresolved ==
    (pc = "choice" /\ UnparsableMeminfo(profile.meminfo_output[1])) =>
        profile.total_ram_gb = None

\* The menu has read a MemTotal line without a value.
C14_Witness ==
    /\ pc = "choice"
    /\ profile.meminfo_output = Some(Stdout("MemTotal:\n"))
    /\ profile.total_ram_gb = None

\* The kinds of the entries of a history.
Kinds(l) == {l[k][1] : k \in DOMAIN l}

\* The launcher block has just run with the identity resolved and the
\* package found absent from the device.
LauncherFoundAbsent ==
    /\ config.install_launcher_action
    /\ "pm_path" \in Kinds(log)
    /\ "already_installed" \notin Kinds(log)

\* The named command of the last step succeeded for the launcher asset.
LauncherCommandSucceeded(kind) == <<kind, config.chosen_launcher_apk[1], TRUE>> \in Range(log)

\* C15 as stated: with the launcher's identity resolved and the package
\* absent, the push and the install command are both issued for the launcher
\* asset, set-home-activity is issued exactly when both succeeded, and the
\* run continues with the application components.
C15_AbsentLauncherPushedAndInstalled ==
    LauncherFoundAbsent =>
        /\ config.chosen_launcher_apk[1] \in Subjects(log, {"push"})
        /\ config.chosen_launcher_apk[1] \in Subjects(log, {"install"})
        /\ "set_home" \in Kinds(log) <=>
               (LauncherCommandSucceeded("push") /\ LauncherCommandSucceeded("install"))
        /\ pc = "install_apps" /\ idx = 1

\* C15, amended: with the launcher's identity resolved and the package
\* absent, the push command is issued for the launcher asset, the install
\* command is issued exactly when the push succeeded, set-home-activity is
\* issued exactly when both succeeded, and the run continues with the
\* application components.
C15_AbsentLauncherInstalledAfterPush ==
    LauncherFoundAbsent =>
        /\ config.chosen_launcher_apk[1] \in Subjects(log, {"push"})
        /\ config.chosen_launcher_apk[1] \in Subjects(log, {"install"}) <=>
               LauncherCommandSucceeded("push")
        /\ "set_home" \in Kinds(log) <=>
               (LauncherCommandSucceeded("push") /\ LauncherCommandSucceeded("install"))
        /\ pc = "install_apps" /\ idx = 1

\* The push succeeded and the install failed: no set-home-activity, and the
\* run stands before the first application component.
C15_Witness ==
    /\ LauncherFoundAbsent
    /\ LauncherCommandSucceeded("push")
    /\ <<"install", config.chosen_launcher_apk[1], FALSE>> \in Range(log)
    /\ "set_home" \notin Kinds(log)
    /\ pc = "install_apps"

\* The launcher block has just run with the identity resolved and the
\* package found on the device.
LauncherFoundPresent ==
    /\ config.install_launcher_action
    /\ "already_installed" \in Kinds(log)

\* C16: with the launcher's identity resolved and the package already on the
\* device, no push and no install command is issued for the launcher, the
\* user is asked whether to make it the default home app, and
\* set-home-activity is issued exactly when the answer is affirmative.
C16_PresentLauncherSetOnlyIfChosen ==
    LauncherFoundPresent =>
        /\ Kinds(log) \cap {"push", "install"} = {}
        /\ "make_default" \in Kinds(log)
        /\ "set_home" \in Kinds(log) <=> <<"make_default", "y", TRUE>> \in Range(log)
        /\ pc = "install_apps" /\ idx = 1

\* The user answered with the empty line: nothing is set.
C16_Witness ==
    /\ LauncherFoundPresent
    /\ <<"make_default", "", TRUE>> \in Range(log)
    /\ "set_home" \notin Kinds(log)
    /\ "skip_default" \in Kinds(log)

\* The launcher block has just run, the asset resolved and its identity not:
\* the capability flag is false, or the inspector failed or printed no
\* package marker.
LauncherIdentityUnresolved ==
    /\ config.install_launcher_action
    /\ pc = "install_apps"
    /\ idx = 1
    /\ config.chosen_launcher_apk[1] \in Subjects(log, {"aapt_unavailable", "package_unresolved"})

\* C17: whenever the launcher's identity could not be resolved, the install
\* run issues no set-home-activity command, reports the failure, and goes on
\* to the application components.
C17_UnresolvedLauncherNotSetAsHome ==
    /\ LauncherIdentityUnresolved =>
           /\ "set_home" \notin Kinds(log)
           /\ <<"launcher_unresolved", config.chosen_launcher_apk[1], TRUE>> \in Range(log)
    /\ Subjects(log, {"aapt_unavailable", "package_unresolved"}) \cap LAUNCHERS # {} =>
           (pc = "install_apps" /\ idx = 1)

\* The inspector ran and its output held no package marker.
C17_Witness ==
    /\ LauncherIdentityUnresolved
    /\ aapt_available
    /\ <<"aapt_dump", config.chosen_launcher_apk[1], TRUE>> \in Range(log)
    /\ "launcher_unresolved" \in Kinds(log)

\* The Android version the table gives each API level it lists.
TableVersion ==
    [api_level \in 26..34 |->
        IF api_level = 34 THEN 14
        ELSE IF api_level = 33 THEN 13
        ELSE IF api_level \in {31, 32} THEN 12
        ELSE IF api_level = 30 THEN 11
        ELSE IF api_level = 29 THEN 10
        ELSE IF api_level = 28 THEN 9
        ELSE 8]

\* The menu shows a profile whose version was read from a numeric API level,
\* the release property being absent or non-numeric.
ApiLevelDecided ==
    /\ pc = "choice"
    /\ profile.sdk_version_str # None
    /\ Truthy(profile.sdk_version_str[1])
    /\ IsDigit(Strip(profile.sdk_version_str[1].out))

\* C18: read from a numeric API level, the Android version is the table's
\* version for the levels 26 to 34 and the API level itself for every level
\* outside the table, the higher ones included; with neither property
\* readable the version is unresolved.
C18_ApiLevelTableElseRaw ==
    /\ ApiLevelDecided =>
           LET api_level == IntOf(Strip(profile.sdk_version_str[1].out))
           IN  profile.android_os_version =
                   IF api_level \in DOMAIN TableVersion THEN Some(TableVersion[api_level])
                   ELSE Some(api_level)
    /\ ( /\ pc = "choice"
         /\ profile.release_version_str = Some(Failed)
         /\ profile.sdk_version_str = Some(Failed) ) =>
           profile.android_os_version = None

\* The identities of the two fixed lists.
FixedIdentities == Range(KnownLauncherPackages) \cup Range(ForcedPackages)

\* C19: every identity an uninstall command is issued for, and every identity
\* listed for one, is of the fixed launcher list, of the fixed force-remove
\* list, or was returned by the identifier in this run; a component without
\* a resolved identity adds nothing to the list.
C19_UninstalledIdentitiesKnown ==
    /\ Range(uninstalled) \subseteq FixedIdentities \cup identified
    /\ Range(packages_to_uninstall) \subseteq FixedIdentities \cup identified

\* A finished run that uninstalled an identity the identifier returned, one
\* of its components having stayed unresolved.
C19_Witness ==
    /\ pc = "pause"
    /\ confirm = Some("y")
    /\ Range(uninstalled) \cap (identified \ FixedIdentities) # {}
    /\ Cardinality(identified) < NumComponents
    /\ Range(uninstalled) = FixedIdentities \cup identified

\* The two launchers and the calendar, camera and clock the uninstall run
\* removes whatever was installed.
AlwaysRemoved ==
    {"app.lawnchair.nightly", "ch.deletescape.lawnchair",
     "org.lineageos.etar", "org.lineageos.aperture.dev", "com.android.deskclock"}

\* C20: in every confirmed uninstall run each identity of the fixed launcher
\* list and of the fixed force-remove list is among the targets of the
\* uninstall loop and has received its uninstall command when the run ends,
\* also when no asset could be fetched and no identity resolved.
C20_FixedIdentitiesAlwaysAttempted ==
    /\ pc = "wipe_uninstall" => AlwaysRemoved \subseteq Range(targets)
    /\ (pc = "pause" /\ confirm = Some("y")) => AlwaysRemoved \subseteq Range(uninstalled)

\* A finished run in which no component's identity was resolved.
C20_Witness ==
    /\ pc = "pause"
    /\ confirm = Some("y")
    /\ identified = {}
    /\ Range(uninstalled) = AlwaysRemoved
    /\ Len(uninstalled) = 5

\* C21: in no state of a session, whatever install and uninstall runs it
\* holds, has the last step executed an inspector 'dump badging' command
\* while the capability flag is false; an identification asked for with the
\* flag false logs that the inspector is unavailable and resolves nothing.
C21_NoInspectorWhileFlagFalse ==
    ~aapt_available =>
        /\ "aapt_dump" \notin Kinds(log)
        /\ Kinds(log) \cap {"package_name", "package_unresolved"} = {}
        /\ identified = {}

\* An uninstall run with the flag false has asked for the identity of a
\* component whose asset is cached.
C21_Witness ==
    /\ ~aapt_available
    /\ pc = "wipe_collect"
    /\ "aapt_unavailable" \in Kinds(log)
    /\ Subjects(log, {"aapt_unavailable"}) \cap {a \in Assets : cache[a] = "complete"} # {}

\* The history shows the asset resolved: found in the cache or transferred.
AssetResolvedIn(l, a) ==
    <<"cached", a, TRUE>> \in Range(l) \/ <<"transfer", a, TRUE>> \in Range(l)

\* The application components whose asset the last step of an install run
\* resolved.
AppsJustResolved ==
    IF InInstallRun THEN {a \in ComponentNames \ LAUNCHERS : AssetResolvedIn(log, a)}
    ELSE {}

\* C22: for an application component whose asset resolved, the push is
\* issued, and the install exactly when the push succeeded, whether the
\* identification returned an identity, returned none, or was not attempted.
C22_AppPushedWhateverIdentity ==
    \A a \in AppsJustResolved :
        /\ a \in Subjects(log, {"push"})
        /\ a \in Subjects(log, {"install"}) <=> <<"push", a, TRUE>> \in Range(log)
        /\ Kinds(log) \cap {"package_name", "package_unresolved", "aapt_unavailable"} # {}

\* The inspector ran on an application's asset and found no identity, and the
\* asset was pushed and installed.
C22_Witness ==
    /\ AppsJustResolved # {}
    /\ aapt_available
    /\ AppsJustResolved \subseteq Subjects(log, {"package_unresolved"})
    /\ AppsJustResolved \subseteq Subjects(log, {"install"})

\* C23: a set-wallpaper command stands in the history only after the
\* wallpaper asset resolved and its push succeeded, in this order, and a
\* set-wallpaper command that failed is followed by the manual instructions
\* naming the pushed file.
C23_WallpaperSetOnlyAfterPush ==
    \A k \in DOMAIN log :
        log[k][1] = "set_wallpaper" =>
            /\ log[k][2] = WALLPAPER_FILENAME
            /\ \E j \in 1..(k - 1) :
                   /\ log[j] = <<"push_wallpaper", WALLPAPER_FILENAME, TRUE>>
                   /\ \E i \in 1..(j - 1) :
                          log[i] \in {<<"cached", WALLPAPER_FILENAME, TRUE>>,
                                      <<"transfer", WALLPAPER_FILENAME, TRUE>>}
            /\ ~log[k][3] =>
                   \E m \in (k + 1)..Len(log) :
                       log[m] = <<"manual_wallpaper", WALLPAPER_FILENAME, TRUE>>

\* The wallpaper was transferred and pushed, and the set command failed.
C23_Witness ==
    /\ pc = "pause"
    /\ <<"push_wallpaper", WALLPAPER_FILENAME, TRUE>> \in Range(log)
    /\ <<"set_wallpaper", WALLPAPER_FILENAME, FALSE>> \in Range(log)
    /\ "manual_wallpaper" \in Kinds(log)

\* C24: with the device bridge present the connection check never ends in
\* failure and has no retry bound: every probe that is not ready is followed
\* by another probe, the process still running, and a ready probe by the
\* return to main.
C24_ProbesUntilReady ==
    [][(pc = "check_adb" /\ adbPresent) =>
           IF AdbNotReady(output'[1])
           THEN pc' = "check_adb" /\ exitCode' = None
           ELSE pc' = "check_aapt" /\ exitCode' = None]_vars

\* The session has ended inside the connection check with the device bridge
\* present.
C24_Witness ==
    /\ adbPresent
    /\ pc = "exited"
    /\ exitCode = Some(1)
    /\ log = Msg("critical_error", "check_adb_connection")

\* C25: an install command stands in the history only right after the
\* successful push of the same asset; after a failed push no install command
\* for the asset is issued, and the caller that reads the result, the launcher
\* block, takes it as a failure: it logs the failed installation and issues
\* no set-home-activity command.
C25_InstallOnlyAfterPush ==
    \A k \in DOMAIN log :
        /\ log[k][1] = "install" =>
               (k > 1 /\ log[k - 1] = <<"push", log[k][2], TRUE>>)
        /\ (log[k][1] = "push" /\ ~log[k][3]) =>
               /\ log[k][2] \notin Subjects(log, {"install"})
               /\ log[k][2] \in LAUNCHERS =>
                      /\ k < Len(log)
                      /\ log[k + 1] = <<"launcher_install_failed", log[k][2], TRUE>>
                      /\ "set_home" \notin Kinds(log)

\* The push of an application's asset has failed.
C25_Witness ==
    /\ InInstallRun
    /\ \E a \in ComponentNames \ LAUNCHERS :
           /\ <<"push", a, FALSE>> \in Range(log)
           /\ a \notin Subjects(log, {"install"})

\* The launcher block has just asked the device for the resolved identity.
LauncherQueried ==
    /\ config.install_launcher_action
    /\ pc = "install_apps"
    /\ idx = 1
    /\ "pm_path" \in Kinds(log)

\* The query succeeded and its output holds a package path.
QueryShowsPackagePath ==
    /\ \E e \in Entries(log, {"pm_path"}) : e[3]
    /\ \E e \in Entries(log, {"stdout"}) : Contains(e[2], "package:")

\* C26: with the launcher's identity resolved, the launcher is taken as
\* present, and the user asked, only when the query succeeded with a package
\* path in its output; when the query fails or shows no package path the
\* user is not asked and the launcher's asset is pushed.
C26_PresentOnlyOnPackagePath ==
    LauncherQueried =>
        IF QueryShowsPackagePath
        THEN /\ "already_installed" \in Kinds(log)
             /\ "push" \notin Kinds(log)
        ELSE /\ Kinds(log) \cap {"already_installed", "make_default"} = {}
             /\ config.chosen_launcher_apk[1] \in Subjects(log, {"push"})

\* The query succeeded with output that holds no package path, and the
\* launcher was pushed.
C26_Witness ==
    /\ LauncherQueried
    /\ Entries(log, {"stdout"}) # {}
    /\ ~QueryShowsPackagePath
    /\ "push" \in Kinds(log)
====
